---- MODULE Spec2Model ----
(***************************************************************************)
(* A model of turbine, a small concurrent static-file server.              *)
(*                                                                         *)
(*   src/src/resolver.rs   Resolver::resolve                                *)
(*   src/src/http.rs       Request::new, Headers::new, HttpPath::try_from   *)
(*   src/src/server.rs     Server::run, read_stream_content_to_end,         *)
(*                         parse_request, get_resource_content, serve_file  *)
(*                                                                         *)
(* Strings (String, &str, PathBuf, byte buffers) are sequences of          *)
(* one-character strings.  The filesystem is a function from canonical     *)
(* paths (sequences of names) to entries; fs::canonicalize is realpath(3). *)
(***************************************************************************)
EXTENDS Integers, Sequences, FiniteSets, TLC

VARIABLES
    fs,         \* the filesystem the resolver consults
    resource,   \* resolver harness: the resource string handed to resolve
    rpc,        \* resolver harness: position ("idle", "start", "resolved", "related")
    res,        \* resolver harness: result of resolve(resource)
    rel,        \* resolver harness: a second call on a related resource
    stream,     \* framing harness: the bytes the peer sends
    closes,     \* framing harness: whether the peer then closes (read returns 0)
    words,      \* framing harness: the words the request line was built from
    pos,        \* framing harness: bytes already delivered by read()
    request,    \* framing harness: the accumulating Vec<u8>
    fpc,        \* framing harness: position ("idle", "reading", "done")
    framed,     \* framing harness: result of read_stream_content_to_end
    nextConn,   \* dispatcher: number of connections that have arrived
    acceptErrs, \* dispatcher: failed accepts so far
    jobs,       \* thread pool: the queue of submitted closures (connection ids)
    conn        \* connections: id -> [pc, input, request, resource, content, written, err]

vars == <<fs, resource, rpc, res, rel, stream, closes, words, pos, request, fpc, framed,
          nextConn, acceptErrs, jobs, conn>>

resolverVars == <<fs, resource, rpc, res, rel>>
framerVars   == <<stream, closes, words, pos, request, fpc, framed>>
serverVars   == <<nextConn, acceptErrs, jobs, conn>>

----------------------------------------------------------------------------
(* Bounds of the model *)

\* most leading separators of a generated resource string
MaxLead == 2
\* most path segments of a generated resource string
MaxSegs == 2
\* symbolic links realpath follows before it gives up with ELOOP (40 on
\* Linux; no chain of links in the layouts below is longer than 2)
SymloopMax == 5
\* most tokens of a generated request line
MaxWords == 4
\* read sizes tried besides "everything that is left": 1..MaxChunk
MaxChunk == 2
\* connections that arrive
MaxConns == 2
\* threads of the pool (the program builds 1000)
NumThreads == 1
\* accepts that fail
MaxAcceptErrs == 1

----------------------------------------------------------------------------
(* Strings *)

SLASH == "/"
Dot == <<".">>
DotDot == <<".", ".">>

\* the default file of a directory, http.rs: join("index.html")
IndexHtml == <<"i", "n", "d", "e", "x", ".", "h", "t", "m", "l">>

\* str::starts_with(char)
StartsWith(s, ch) == Len(s) > 0 /\ s[1] = ch

\* slice::ends_with / str::ends_with
EndsWith(s, suffix) ==
    /\ Len(s) >= Len(suffix)
    /\ SubSeq(s, Len(s) - Len(suffix) + 1, Len(s)) = suffix

\* number of leading characters of s that satisfy: (c = ch) = eq
RECURSIVE LeadCount(_, _, _)
LeadCount(s, ch, eq) ==
    IF s = <<>> \/ ((s[1] = ch) # eq) THEN 0
    ELSE 1 + LeadCount(Tail(s), ch, eq)

\* a trim that removes one leading occurrence only (str::strip_prefix)
TrimStartOnce(s, ch) == IF StartsWith(s, ch) THEN Tail(s) ELSE s

\* str::trim_start_matches(char): every leading occurrence is removed
TrimStartMatches(s, ch) == SubSeq(s, LeadCount(s, ch, TRUE) + 1, Len(s))

\* all sequences over S of length at most n
SeqsUpTo(S, n) == UNION {[1..k -> S] : k \in 0..n}

----------------------------------------------------------------------------
(* Paths and the filesystem *)

\* the canonicalized document root, /w
DocumentRoot == << <<"w">> >>

\* a canonical path (a sequence of names) as the text of a PathBuf
RECURSIVE PathStr(_)
PathStr(p) ==
    IF p = <<>> THEN <<SLASH>>
    ELSE IF Len(p) = 1 THEN <<SLASH>> \o p[1]
    ELSE PathStr(SubSeq(p, 1, Len(p) - 1)) \o <<SLASH>> \o p[Len(p)]

\* Path::starts_with: a whole-component prefix
PathStartsWith(p, base) ==
    Len(p) >= Len(base) /\ SubSeq(p, 1, Len(base)) = base

\* PathBuf::join: an absolute argument replaces the base, otherwise it is
\* pushed after a separator
Join(base, path) ==
    IF StartsWith(path, SLASH) THEN path
    ELSE IF EndsWith(base, <<SLASH>>) THEN base \o path
    ELSE base \o <<SLASH>> \o path

Parent(p) == IF p = <<>> THEN <<>> ELSE SubSeq(p, 1, Len(p) - 1)

\* every result below is a record [kind, path, io, lookups]: kind is "Ok" or the
\* error variant, path the PathBuf it carries, io the errno of an io::Error,
\* lookups the number of filesystem calls made.
IoErr(errno) == [kind |-> "IO", path |-> <<>>, io |-> errno, lookups |-> 1]

\* fs::canonicalize = realpath(3): walks the text left to right over the real
\* filesystem; every component must exist, a symbolic link is replaced by its
\* target, and a component followed by anything (a separator included) must
\* be a directory.
RECURSIVE Realpath(_, _, _, _)
Realpath(f, cur, rest, nlinks) ==
    LET r == SubSeq(rest, LeadCount(rest, SLASH, TRUE) + 1, Len(rest)) IN
    IF r = <<>> THEN [kind |-> "Ok", path |-> cur, io |-> "", lookups |-> 1]
    ELSE
      LET k     == LeadCount(r, SLASH, FALSE)
          name  == SubSeq(r, 1, k)
          after == SubSeq(r, k + 1, Len(r))
          p     == Append(cur, name)
      IN  IF name = Dot THEN Realpath(f, cur, after, nlinks)
          ELSE IF name = DotDot THEN Realpath(f, Parent(cur), after, nlinks)
          ELSE IF p \notin DOMAIN f THEN IoErr("ENOENT")
          ELSE IF f[p].type = "symlink" THEN
                 IF nlinks + 1 > SymloopMax THEN IoErr("ELOOP")
                 ELSE Realpath(f,
                               IF StartsWith(f[p].target, SLASH) THEN <<>> ELSE cur,
                               f[p].target \o after, nlinks + 1)
          ELSE IF f[p].type # "dir" /\ after # <<>> THEN IoErr("ENOTDIR")
          ELSE Realpath(f, p, after, nlinks)

Canonicalize(f, path) == Realpath(f, <<>>, path, 0)

\* Path::is_file / Path::is_dir on a canonical path
IsFile(f, p) == p \in DOMAIN f /\ f[p].type = "file"
IsDir(f, p)  == p \in DOMAIN f /\ f[p].type = "dir"

\* what a path denotes once its symbolic links are followed
Denoted(f, path) == Canonicalize(f, PathStr(path))

\* impl TryFrom<PathBuf> for HttpPath
HttpPathTryFrom(f, path) ==
    LET c == Canonicalize(f, path) IN
    IF c.kind # "Ok" THEN c
    ELSE IF IsFile(f, c.path) THEN [c EXCEPT !.lookups = 2]
    ELSE IF IsDir(f, c.path)
         THEN [c EXCEPT !.path = Append(c.path, IndexHtml), !.lookups = 3]
    ELSE [c EXCEPT !.kind = "InvalidPath", !.lookups = 3]

\* Resolver::resolve after the leading-separator check
ResolveJoined(root, f, r) ==
    LET trimmed == TrimStartMatches(r, SLASH)
        hp      == HttpPathTryFrom(f, Join(PathStr(root), trimmed))
    IN  IF hp.kind # "Ok" THEN hp
        ELSE IF ~PathStartsWith(hp.path, root)
             THEN [hp EXCEPT !.kind = "PathOutsideDocumentRoot"]
        ELSE hp

\* a resolver that joins whatever it is given
ResolveUnchecked(root, f, r) == ResolveJoined(root, f, r)

\* Resolver::resolve
Resolve(root, f, r) ==
    IF ~StartsWith(r, SLASH)
    THEN [kind |-> "PathShouldStartWithSlash", path |-> r, io |-> "", lookups |-> 0]
    ELSE ResolveJoined(root, f, r)

----------------------------------------------------------------------------
(* Filesystem layouts the resolver is run against *)

DirEntry      == [type |-> "dir", target |-> <<>>, content |-> ""]
FileEntry(c)  == [type |-> "file", target |-> <<>>, content |-> c]
LinkEntry(t)  == [type |-> "symlink", target |-> t, content |-> ""]
OtherEntry    == [type |-> "other", target |-> <<>>, content |-> ""]

NameW == <<"w">>
NameD == <<"d">>
NameL == <<"l">>
NameS == <<"s">>
NameO == <<"o">>
NameP == <<"p">>

\* what a directory's index.html can be
IndexKinds == {"absent", "file", "link_out", "link_in", "dir", "other"}
\* what the symbolic link /w/l can point to
LinkKinds == {"out_file", "out_dir", "out_other", "in_dir", "loop"}

\* /            the filesystem root
\* /s           a regular file outside the document root
\* /o           a directory outside the document root, with an index.html
\* /p           a named pipe outside the document root
\* /w           the document root
\* /w/d         a directory inside it
\* /w/l         a symbolic link
BaseLayout ==
    (<<>> :> DirEntry)
    @@ (<<NameS>> :> FileEntry("secret"))
    @@ (<<NameO>> :> DirEntry)
    @@ (<<NameO, IndexHtml>> :> FileEntry("outside"))
    @@ (<<NameP>> :> OtherEntry)
    @@ (<<NameW>> :> DirEntry)
    @@ (<<NameW, NameD>> :> DirEntry)

IndexEntry(p, kind, content, inside) ==
    CASE kind = "absent"   -> <<>>
      [] kind = "file"     -> (p :> FileEntry(content))
      [] kind = "link_out" -> (p :> LinkEntry(PathStr(<<NameS>>)))
      [] kind = "link_in"  -> (p :> LinkEntry(PathStr(inside)))
      [] kind = "dir"      -> (p :> DirEntry)
      [] kind = "other"    -> (p :> OtherEntry)

LinkTarget(kind) ==
    CASE kind = "out_file" -> PathStr(<<NameS>>)
      [] kind = "out_dir"  -> PathStr(<<NameO>>)
      [] kind = "out_other" -> PathStr(<<NameP>>)
      [] kind = "in_dir"   -> NameD
      [] kind = "loop"     -> NameL

Layout(rootIndex, dirIndex, link) ==
    IndexEntry(<<NameW, IndexHtml>>, rootIndex, "A", <<NameW, NameD, IndexHtml>>)
    @@ IndexEntry(<<NameW, NameD, IndexHtml>>, dirIndex, "B", <<NameW, IndexHtml>>)
    @@ (<<NameW, NameL>> :> LinkEntry(LinkTarget(link)))
    @@ BaseLayout

Layouts == {Layout(ri, di, lk) : ri \in IndexKinds, di \in IndexKinds, lk \in LinkKinds}

\* the segments generated resource strings are made of
SegNames == {DotDot, NameD, NameL, NameS, IndexHtml}

RECURSIVE JoinSegs(_)
JoinSegs(segs) ==
    IF segs = <<>> THEN <<>>
    ELSE IF Len(segs) = 1 THEN segs[1]
    ELSE segs[1] \o <<SLASH>> \o JoinSegs(Tail(segs))

Slashes(n) == [i \in 1..n |-> SLASH]

\* resource strings: leading separators, segments, an optional trailing separator
Resources ==
    {Slashes(n) \o JoinSegs(segs) \o Slashes(t) :
        n \in 0..MaxLead, segs \in SeqsUpTo(SegNames, MaxSegs), t \in 0..1}

----------------------------------------------------------------------------
(* The resolver, called as parse_request calls it *)

NoResult == [kind |-> "none", path |-> <<>>, io |-> "", lookups |-> 0]
NoRelated == [how |-> "none", arg |-> <<>>, result |-> NoResult]

\* the index.html child of a directory resource, named directly
IndexChild(r) ==
    IF EndsWith(r, <<SLASH>>) THEN r \o IndexHtml
    ELSE r \o <<SLASH>> \o IndexHtml

FramerIdle ==
    /\ stream = <<>> /\ closes = FALSE /\ words = <<>> /\ pos = 0
    /\ request = <<>> /\ fpc = "idle" /\ framed = [kind |-> "none"]

ServerIdle ==
    /\ nextConn = 0 /\ acceptErrs = 0 /\ jobs = <<>> /\ conn = <<>>

InitResolve ==
    /\ fs \in Layouts
    /\ resource \in Resources
    /\ rpc = "start"
    /\ res = NoResult
    /\ rel = NoRelated
    /\ FramerIdle
    /\ ServerIdle

\* parse_request: Resolver::new(document_root).resolve(resource)
ResolveCall ==
    /\ rpc = "start"
    /\ res' = Resolve(DocumentRoot, fs, resource)
    /\ rpc' = "resolved"
    /\ UNCHANGED <<fs, resource, rel, framerVars, serverVars>>

\* the same resolver asked for the resource with a trailing separator
ResolveTrailing ==
    /\ rpc = "resolved"
    /\ rel' = [how |-> "slash", arg |-> resource \o <<SLASH>>,
               result |-> Resolve(DocumentRoot, fs, resource \o <<SLASH>>)]
    /\ rpc' = "related"
    /\ UNCHANGED <<fs, resource, res, framerVars, serverVars>>

\* the same resolver asked for the resource's index.html child
ResolveIndexChild ==
    /\ rpc = "resolved"
    /\ rel' = [how |-> "child", arg |-> IndexChild(resource),
               result |-> Resolve(DocumentRoot, fs, IndexChild(resource))]
    /\ rpc' = "related"
    /\ UNCHANGED <<fs, resource, res, framerVars, serverVars>>

NextResolve == ResolveCall \/ ResolveTrailing \/ ResolveIndexChild

SpecResolve == InitResolve /\ [][NextResolve]_vars

----------------------------------------------------------------------------
(* Request framing and parsing *)

CR == "\r"
LF == "\n"
SP == " "
\* a byte that is not valid UTF-8, and the character that replaces it
BadByte == "xFF"
Replacement == "uFFFD"

\* END_OF_CONTENT, the blank-line terminator
Terminator == <<CR, LF, CR, LF>>
CrLf == <<CR, LF>>

\* String::from_utf8_lossy: invalid bytes become U+FFFD, valid text is kept
FromUtf8Lossy(bytes) ==
    [i \in 1..Len(bytes) |-> IF bytes[i] = BadByte THEN Replacement ELSE bytes[i]]

\* char::is_whitespace
IsWhitespace(c) == c \in {SP, "\t", LF, CR, "\f"}

\* number of leading characters of s whose being whitespace equals ws
RECURSIVE LeadWs(_, _)
LeadWs(s, ws) ==
    IF s = <<>> \/ (IsWhitespace(s[1]) # ws) THEN 0
    ELSE 1 + LeadWs(Tail(s), ws)

\* str::split_whitespace: the maximal runs of non-whitespace characters
RECURSIVE SplitWhitespace(_)
SplitWhitespace(s) ==
    LET t == SubSeq(s, LeadWs(s, TRUE) + 1, Len(s)) IN
    IF t = <<>> THEN <<>>
    ELSE LET k == LeadWs(t, FALSE)
         IN  <<SubSeq(t, 1, k)>> \o SplitWhitespace(SubSeq(t, k + 1, Len(t)))

\* request.split("\r\n").first(): the text before the first CR LF, or all of it
RECURSIVE FirstLine(_)
FirstLine(s) ==
    IF s = <<>> THEN <<>>
    ELSE IF Len(s) >= 2 /\ s[1] = CR /\ s[2] = LF THEN <<>>
    ELSE <<s[1]>> \o FirstLine(Tail(s))

MethodGet  == <<"G", "E", "T">>
MethodPost == <<"P", "O", "S", "T">>

InvalidHeaders == [kind |-> "InvalidHeaders"]
InvalidMethod(token) == [kind |-> "InvalidMethod", token |-> token]
OkRequest(method, res_, version) ==
    [kind |-> "Ok", method |-> method, resource |-> res_, version |-> version]

\* a parser that asks for at least three tokens
HeadersNewAtLeast(ws) ==
    IF Len(ws) < 3 THEN InvalidHeaders
    ELSE IF ws[1] = MethodGet THEN OkRequest("Get", ws[2], ws[3])
    ELSE IF ws[1] = MethodPost THEN OkRequest("Post", ws[2], ws[3])
    ELSE InvalidMethod(ws[1])

\* Headers::new
HeadersNew(ws) ==
    IF Len(ws) # 3 THEN InvalidHeaders
    ELSE IF ws[1] = MethodGet THEN OkRequest("Get", ws[2], ws[3])
    ELSE IF ws[1] = MethodPost THEN OkRequest("Post", ws[2], ws[3])
    ELSE InvalidMethod(ws[1])

\* a parser that reads the tokens of every line
RequestNewAllLines(text) == HeadersNew(SplitWhitespace(text))

\* Request::new (lines.first() is always present: split never yields nothing)
RequestNew(text) == HeadersNew(SplitWhitespace(FirstLine(text)))

\* how many bytes one read may return when rem are still to come: at least
\* one, at most the 1024-byte buffer
BufSize == 1024
ReadSizes(rem) ==
    {n \in 1..rem : n <= BufSize /\ (n <= MaxChunk \/ n = rem)}

----------------------------------------------------------------------------
(* Byte streams the framer is run against *)

Version11 == <<"H", "T", "T", "P", "/", "1", ".", "1">>
ResourceD == <<"/", "d">>
LowerGet  == <<"g", "e", "t">>

BadResource == <<"/", BadByte>>

\* the tokens request lines are made of: a first token, then any of the rest
FirstTokens == {MethodGet, MethodPost, LowerGet, ResourceD}
RestTokens  == {ResourceD, BadResource, Version11}

\* request lines of at most MaxWords tokens
Lines ==
    {<<>>} \cup {<<m>> \o r : m \in FirstTokens, r \in SeqsUpTo(RestTokens, MaxWords - 1)}

\* the whitespace put between two tokens
Separators == {<<SP>>, <<LF, SP>>}

RECURSIVE JoinWords(_, _)
JoinWords(ws, sep) ==
    IF ws = <<>> THEN <<>>
    ELSE IF Len(ws) = 1 THEN ws[1]
    ELSE ws[1] \o sep \o JoinWords(Tail(ws), sep)

\* what follows the request line: the terminator alone, a header line that
\* looks like a request line and the terminator, the terminator and more
\* bytes, or nothing at all
Tails ==
    { Terminator,
      CrLf \o MethodPost \o <<SP>> \o ResourceD \o <<SP>> \o Version11 \o Terminator,
      Terminator \o <<BadByte, "b">>,
      <<>> }

RECURSIVE Contains(_, _)
Contains(s, sub) ==
    IF Len(s) < Len(sub) THEN FALSE
    ELSE SubSeq(s, 1, Len(sub)) = sub \/ Contains(Tail(s), sub)

ResolverIdle ==
    /\ fs = <<>> /\ resource = <<>> /\ rpc = "idle"
    /\ res = NoResult /\ rel = NoRelated

InitFrame ==
    /\ \E ws \in Lines, sep \in Separators, tail \in Tails :
          /\ words = ws
          /\ stream = JoinWords(ws, sep) \o tail
    /\ closes \in BOOLEAN
    /\ pos = 0
    /\ request = <<>>
    /\ fpc = "reading"
    /\ framed = [kind |-> "none"]
    /\ ResolverIdle
    /\ ServerIdle

\* read_stream_content_to_end, one turn of the loop in which read returns n > 0 bytes
Read(n) ==
    /\ fpc = "reading"
    /\ n \in ReadSizes(Len(stream) - pos)
    /\ LET buf == request \o SubSeq(stream, pos + 1, pos + n) IN
         /\ request' = buf
         /\ pos' = pos + n
         /\ IF EndsWith(buf, Terminator)
            THEN /\ fpc' = "done"
                 /\ framed' = RequestNew(FromUtf8Lossy(buf))
            ELSE UNCHANGED <<fpc, framed>>
    /\ UNCHANGED <<stream, closes, words, resolverVars, serverVars>>

\* an end of input that is an error unless the terminator has arrived
ReadEofStrict ==
    /\ fpc = "reading"
    /\ pos = Len(stream)
    /\ closes
    /\ fpc' = "done"
    /\ framed' = IF EndsWith(request, Terminator)
                 THEN RequestNew(FromUtf8Lossy(request))
                 ELSE [kind |-> "EmptyRequest"]
    /\ UNCHANGED <<stream, closes, words, pos, request, resolverVars, serverVars>>

\* read_stream_content_to_end, the turn in which read returns 0: end of input.
\* While the peer keeps the connection open and sends nothing, read blocks.
ReadEof ==
    /\ fpc = "reading"
    /\ pos = Len(stream)
    /\ closes
    /\ fpc' = "done"
    /\ framed' = RequestNew(FromUtf8Lossy(request))
    /\ UNCHANGED <<stream, closes, words, pos, request, resolverVars, serverVars>>

\* read_stream_content_to_end, the turn in which read fails: `?` returns ParseError::IO
ReadError ==
    /\ fpc = "reading"
    /\ fpc' = "done"
    /\ framed' = [kind |-> "IO"]
    /\ UNCHANGED <<stream, closes, words, pos, request, resolverVars, serverVars>>

NextFrame ==
    \/ \E n \in ReadSizes(Len(stream) - pos) : Read(n)
    \/ ReadEof
    \/ ReadError

SpecFrame == InitFrame /\ [][NextFrame]_vars

----------------------------------------------------------------------------
(* The server: accept loop, thread pool, serve_file *)

HeaderStatus      == [part |-> "status", bytes |-> "HTTP/1.1 200 OK\r\n"]
HeaderContentType == [part |-> "content-type",
                      bytes |-> "Content-Type: text/html; charset=UTF-8\r\n"]
ContentLength(n)  == [part |-> "content-length", bytes |-> n]
NewLine           == [part |-> "blank", bytes |-> CrLf]
Body(content)     == [part |-> "body", bytes |-> content]
EndOfContent      == [part |-> "end", bytes |-> Terminator]

\* the page get_resource_content returns, a String built into the program
\* (its text in pieces; the model's lengths count pieces)
WelcomePage ==
    <<"<html>", "<head>", "<title>", "Turbine", "</title>", "</head>",
      "<body>", "Welcome to turbine", "</body>", "</html>">>

\* the contents of the file a path denotes: fs::read_to_string
FileContent(f, path) ==
    IF Denoted(f, path).kind = "Ok" /\ IsFile(f, Denoted(f, path).path)
    THEN f[Denoted(f, path).path].content
    ELSE <<>>

\* Server::get_resource_content: the read of the file is commented out, the
\* built-in page is returned for every resource, and the call cannot fail
GetResourceContent(f, path) == WelcomePage

\* the response serve_file writes, one write_all each, in this order
Response(content) ==
    << HeaderStatus, HeaderContentType,
       ContentLength(Len(content) + Len(Terminator)),
       NewLine, Body(content), EndOfContent >>

\* the buffers read_stream_content_to_end can stop with, over every way the
\* bytes can be split into reads: a prefix that ends with the terminator, or
\* the whole stream at end of input
StopBuffers(s) ==
    {SubSeq(s, 1, n) : n \in {m \in 1..Len(s) : EndsWith(SubSeq(s, 1, m), Terminator)}}
        \cup {s}

NoRequest == [kind |-> "none"]
NoError == [stage |-> "none", kind |-> "none"]

NewConnection(input) ==
    [pc |-> "queued", input |-> input, req |-> NoRequest, path |-> NoResult,
     content |-> <<>>, written |-> <<>>, err |-> NoError]

Failed(c, stage, kind) == [c EXCEPT !.pc = "failed", !.err = [stage |-> stage, kind |-> kind]]

\* serve_file, line 137: `?` on the result of read_stream_content_to_end
AfterFrame(c, r) ==
    IF r.kind = "Ok" THEN [c EXCEPT !.pc = "resolve", !.req = r]
    ELSE Failed([c EXCEPT !.req = r], "frame", r.kind)

\* a serve_file that writes the status line before it knows the resource
AfterResolveEager(c, r) ==
    IF r.kind = "Ok" THEN [c EXCEPT !.pc = "content", !.path = r]
    ELSE Failed([c EXCEPT !.path = r, !.written = <<HeaderStatus>>], "resolve", r.kind)

\* serve_file, line 139: `?` on the result of parse_request
AfterResolve(c, r) ==
    IF r.kind = "Ok" THEN [c EXCEPT !.pc = "content", !.path = r]
    ELSE Failed([c EXCEPT !.path = r], "resolve", r.kind)

\* connections a worker thread is running serve_file for
Running == {i \in DOMAIN conn : conn[i].pc \in {"frame", "resolve", "content", "write"}}
\* connections accepted whose serve_file has not returned
Unfinished == {i \in DOMAIN conn : conn[i].pc \notin {"done", "failed"}}

\* a pool in which every submitted job gets a thread at once
WorkerIdleAlways == TRUE

\* a pool that loses a thread for good whenever serve_file returns an error
WorkerIdleLeaky ==
    Cardinality(Running \cup {i \in DOMAIN conn : conn[i].pc = "failed"}) < NumThreads

\* threadpool::Builder::new().num_threads(n): a job starts when one of the n
\* threads is idle
WorkerIdle == Cardinality(Running) < NumThreads

\* the requests clients send, each with its terminator
RequestLine(ws) == JoinWords(ws, <<SP>>) \o Terminator
ServerInputs ==
    { RequestLine(<<MethodGet, <<SLASH>>, Version11>>),
      RequestLine(<<MethodGet, ResourceD, Version11>>),
      RequestLine(<<LowerGet, <<SLASH>>, Version11>>),
      RequestLine(<<MethodGet, <<SLASH>> \o DotDot \o <<SLASH>> \o NameS, Version11>>) }

\* the document root the server runs on
ServedLayout ==
    [Layout("file", "file", "out_file") EXCEPT
        ![<<NameW, IndexHtml>>].content = <<"A">>,
        ![<<NameW, NameD, IndexHtml>>].content = <<"B", "B">>]

Init ==
    /\ fs = ServedLayout
    /\ resource = <<>> /\ rpc = "idle" /\ res = NoResult /\ rel = NoRelated
    /\ FramerIdle
    /\ ServerIdle

\* Server::run: listener.incoming() yields a connection, thread_pool.execute
\* queues the closure that serves it and returns at once
Accept(input) ==
    /\ nextConn < MaxConns
    /\ nextConn' = nextConn + 1
    /\ conn' = Append(conn, NewConnection(input))
    /\ jobs' = Append(jobs, nextConn + 1)
    /\ UNCHANGED <<acceptErrs, resolverVars, framerVars>>

\* Server::run: listener.incoming() yields an error; the loop goes on
AcceptError ==
    /\ acceptErrs < MaxAcceptErrs
    /\ acceptErrs' = acceptErrs + 1
    /\ UNCHANGED <<nextConn, jobs, conn, resolverVars, framerVars>>

\* a pool thread takes the oldest queued closure and enters serve_file
WorkerStart ==
    /\ jobs # <<>>
    /\ WorkerIdle
    /\ conn' = [conn EXCEPT ![Head(jobs)].pc = "frame"]
    /\ jobs' = Tail(jobs)
    /\ UNCHANGED <<nextConn, acceptErrs, resolverVars, framerVars>>

\* serve_file: read_stream_content_to_end, the whole read loop
Frame(i) ==
    /\ conn[i].pc = "frame"
    /\ \E r \in {RequestNew(FromUtf8Lossy(b)) : b \in StopBuffers(conn[i].input)}
              \cup {[kind |-> "IO"]} :
          conn' = [conn EXCEPT ![i] = AfterFrame(conn[i], r)]
    /\ UNCHANGED <<nextConn, acceptErrs, jobs, resolverVars, framerVars>>

\* serve_file: parse_request
ParseRequest(i) ==
    /\ conn[i].pc = "resolve"
    /\ conn' = [conn EXCEPT ![i] =
                    AfterResolve(conn[i], Resolve(DocumentRoot, fs, conn[i].req.resource))]
    /\ UNCHANGED <<nextConn, acceptErrs, jobs, resolverVars, framerVars>>

\* serve_file: get_resource_content
ReadContent(i) ==
    /\ conn[i].pc = "content"
    /\ conn' = [conn EXCEPT ![i].content = GetResourceContent(fs, conn[i].path.path),
                            ![i].pc = "write"]
    /\ UNCHANGED <<nextConn, acceptErrs, jobs, resolverVars, framerVars>>

\* serve_file: the next write_all succeeds; after the last one Ok(()) is returned
Write(i) ==
    /\ conn[i].pc = "write"
    /\ LET out  == Response(conn[i].content)
           done == Len(conn[i].written) + 1
       IN  conn' = [conn EXCEPT ![i].written = Append(@, out[done]),
                               ![i].pc = IF done = Len(out) THEN "done" ELSE "write"]
    /\ UNCHANGED <<nextConn, acceptErrs, jobs, resolverVars, framerVars>>

\* serve_file: the next write_all fails, `?` returns ServerError::IO
WriteError(i) ==
    /\ conn[i].pc = "write"
    /\ conn' = [conn EXCEPT ![i] = Failed(conn[i], "write", "IO")]
    /\ UNCHANGED <<nextConn, acceptErrs, jobs, resolverVars, framerVars>>

Next ==
    \/ \E input \in ServerInputs : Accept(input)
    \/ AcceptError
    \/ WorkerStart
    \/ \E i \in DOMAIN conn : Frame(i)
    \/ \E i \in DOMAIN conn : ParseRequest(i)
    \/ \E i \in DOMAIN conn : ReadContent(i)
    \/ \E i \in DOMAIN conn : Write(i)
    \/ \E i \in DOMAIN conn : WriteError(i)

Spec == Init /\ [][Next]_vars

----------------------------------------------------------------------------
(* Properties of the resolver, checked under SpecResolve *)

\* what the joined path of a resource canonicalizes to
Named(f, r) ==
    Canonicalize(f, Join(PathStr(DocumentRoot), TrimStartMatches(r, SLASH)))

NamesDirInRoot(f, r) ==
    /\ Named(f, r).kind = "Ok"
    /\ IsDir(f, Named(f, r).path)
    /\ PathStartsWith(Named(f, r).path, DocumentRoot)

NamesFileInRoot(f, r) ==
    /\ Named(f, r).kind = "Ok"
    /\ IsFile(f, Named(f, r).path)
    /\ PathStartsWith(Named(f, r).path, DocumentRoot)

\* two results of resolve are the same: the same path, or both a failure
SameResult(a, b) ==
    /\ (a.kind = "Ok") <=> (b.kind = "Ok")
    /\ a.kind = "Ok" => a.path = b.path

\* C1 (traversal safety): a path resolve returns never denotes a file outside
\* the document root: when it exists, its canonical form is the document root
\* or a descendant of it.
C1_TraversalSafety ==
    (rpc # "start" /\ res.kind = "Ok" /\ Denoted(fs, res.path).kind = "Ok")
        => PathStartsWith(Denoted(fs, res.path).path, DocumentRoot)

\* C2 (leading-separator precondition): a resource that does not start with
\* '/' fails with PathShouldStartWithSlash, before any filesystem lookup.
C2_LeadingSeparator ==
    (rpc # "start" /\ ~StartsWith(resource, SLASH))
        => (res.kind = "PathShouldStartWithSlash" /\ res.lookups = 0)

\* C2 witness: a resource without the leading '/' was rejected although the
\* rest of resolve would have found a file for it inside the root.
C2_Witness ==
    /\ rpc = "resolved"
    /\ ~StartsWith(resource, SLASH)
    /\ resource # <<>>
    /\ ResolveJoined(DocumentRoot, fs, resource).kind = "Ok"
    /\ res.kind = "PathShouldStartWithSlash"

\* C3 (success means an existing regular file): whenever resolve succeeds,
\* the returned path denotes an existing regular file.
C3_ReturnsRegularFile ==
    (rpc # "start" /\ res.kind = "Ok")
        => (/\ Denoted(fs, res.path).kind = "Ok"
            /\ IsFile(fs, Denoted(fs, res.path).path))

\* C4 (directory default): for a resource that names a directory inside the
\* document root, resolve gives the same result as for its index.html child
\* named directly.
C4_DirectoryDefault ==
    (rel.how = "child" /\ StartsWith(resource, SLASH) /\ NamesDirInRoot(fs, resource))
        => SameResult(res, rel.result)

\* C5 as claimed (trailing-separator equivalence): for every resource R that
\* starts with '/', resolve(R + "/") and resolve(R) give the same result.
C5_TrailingSeparator ==
    (rel.how = "slash" /\ StartsWith(resource, SLASH))
        => SameResult(res, rel.result)

\* C5 as amended: resolve(R + "/") and resolve(R) give the same result unless
\* R names a regular file inside the document root; then resolve(R) returns
\* that file and resolve(R + "/") fails with the I/O error "not a directory".
C5_TrailingSeparatorAmended ==
    (rel.how = "slash" /\ StartsWith(resource, SLASH))
        => IF NamesFileInRoot(fs, resource)
           THEN /\ res.kind = "Ok"
                /\ res.path = Named(fs, resource).path
                /\ rel.result.kind = "IO"
                /\ rel.result.io = "ENOTDIR"
           ELSE SameResult(res, rel.result)

\* C5 witness: a directory resource and the same resource with a trailing
\* separator both resolved to the directory's index.html.
C5_Witness ==
    /\ rel.how = "slash"
    /\ StartsWith(resource, SLASH)
    /\ ~EndsWith(resource, <<SLASH>>)
    /\ NamesDirInRoot(fs, resource)
    /\ Named(fs, resource).path # DocumentRoot
    /\ res.kind = "Ok"
    /\ rel.result.kind = "Ok"
    /\ rel.result.path = res.path

\* the joined path of a resource exists and is neither a regular file nor a
\* directory
NamesOther(f, r) ==
    /\ Named(f, r).kind = "Ok"
    /\ ~IsFile(f, Named(f, r).path)
    /\ ~IsDir(f, Named(f, r).path)

\* C13 (resolution error kinds): for a resource starting with '/'
\* whose joined path does not exist, or is neither a regular file nor a
\* directory, resolve fails with InvalidPath.
C13_InvalidPathKind ==
    (rpc # "start" /\ StartsWith(resource, SLASH)
        /\ (NamesOther(fs, resource)
             \/ (Named(fs, resource).kind = "IO" /\ Named(fs, resource).io = "ENOENT")))
        => res.kind = "InvalidPath"

----------------------------------------------------------------------------
(* Properties of the framer, checked under SpecFrame *)

\* C6 (framing boundary): for a stream that contains the terminator, however
\* the bytes are split into reads, what framing returns is what it returns
\* when the whole stream arrives in a single read followed by end of input.
C6_FramingBoundary ==
    (fpc = "done" /\ framed.kind # "IO" /\ Contains(stream, Terminator))
        => framed = RequestNew(FromUtf8Lossy(stream))

\* C6 witness: framing stopped at the terminator with bytes of the stream
\* unread, and returned a Request.
C6_Witness ==
    /\ fpc = "done"
    /\ framed.kind = "Ok"
    /\ Contains(stream, Terminator)
    /\ Len(request) < Len(stream)

C12_FramingTermination ==
    /\ fpc = "reading" => ~EndsWith(request, Terminator)
    /\ (fpc = "done" /\ framed.kind # "IO")
          => /\ EndsWith(request, Terminator) \/ (closes /\ request = stream)
             /\ framed = RequestNew(FromUtf8Lossy(request))
             /\ (~Contains(stream, Terminator) /\ Len(words) = 3
                    /\ words[1] \in {MethodGet, MethodPost})
                  => (framed.kind = "Ok" /\ framed.resource = FromUtf8Lossy(words[2]))

\* C12 witness: end of input arrived after a well-formed request line with no
\* terminator, and framing returned a Request.
C12_Witness ==
    /\ fpc = "done"
    /\ closes
    /\ ~Contains(stream, Terminator)
    /\ request = stream
    /\ words = <<MethodGet, ResourceD, Version11>>
    /\ framed.kind = "Ok"

----------------------------------------------------------------------------
(* Properties of the server, checked under Spec *)

\* C8 (no response on error): a connection whose framing, resolution or
\* content read failed has had nothing written to it, and a connection that
\* has had anything written to it has passed all three stages.
C8_NoResponseOnError ==
    \A i \in DOMAIN conn :
        /\ (conn[i].pc = "failed" /\ conn[i].err.stage \in {"frame", "resolve", "content"})
              => conn[i].written = <<>>
        /\ conn[i].written # <<>>
              => /\ conn[i].req.kind = "Ok"
                 /\ conn[i].path.kind = "Ok"
                 /\ conn[i].content # <<>>
                 /\ conn[i].err.stage \in {"none", "write"}

\* C8 witness: one connection failed in resolution and one in framing, with
\* nothing written to either.
C8_Witness ==
    \E i, j \in DOMAIN conn :
        /\ conn[i].pc = "failed" /\ conn[i].err.stage = "resolve"
        /\ conn[j].pc = "failed" /\ conn[j].err.stage = "frame"
        /\ conn[i].written = <<>> /\ conn[j].written = <<>>

\* C9 (served content): the body of a complete response is the contents of
\* the file resolution returned for the request's resource.
C9_ServedContent ==
    \A i \in DOMAIN conn :
        conn[i].pc = "done"
            => conn[i].written[5] = Body(FileContent(fs, conn[i].path.path))

\* C10 as claimed (backpressure): the connections accepted and not finished
\* never outnumber the threads of the pool.
C10_Backpressure == Cardinality(Unfinished) <= NumThreads

\* C10 as amended: the connections being served never outnumber the threads
\* of the pool; submitting never blocks the accept loop, and a connection
\* accepted while every thread is busy waits in the pool's queue, which holds
\* every accepted connection not yet started, in order of arrival.
C10_BoundedWorkers ==
    /\ Cardinality(Running) <= NumThreads
    /\ nextConn < MaxConns => ENABLED (\E input \in ServerInputs : Accept(input))
    /\ \A k \in 1..Len(jobs) : conn[jobs[k]].pc = "queued"
    /\ \A k \in 1..(Len(jobs) - 1) : jobs[k] < jobs[k + 1]
    /\ \A i \in DOMAIN conn : conn[i].pc = "queued" => \E k \in 1..Len(jobs) : jobs[k] = i

\* C10 witness: every thread is busy and an accepted connection waits in
\* the queue.
C10_Witness ==
    /\ Cardinality(Running) = NumThreads
    /\ jobs # <<>>
    /\ Cardinality(Unfinished) > NumThreads

\* what serve_file makes of an input when none of its reads and writes fails:
\* the framing error, else the resolution error, else "Ok"
Outcome(input) ==
    LET r == RequestNew(FromUtf8Lossy(input)) IN
    IF r.kind # "Ok" THEN r.kind ELSE Resolve(DocumentRoot, fs, r.resource).kind

\* every connection's state follows from its own input and its own I/O, and
\* neither the accept loop nor the pool is stopped by what happened to others
IsolatedState ==
    /\ nextConn < MaxConns => ENABLED (\E input \in ServerInputs : Accept(input))
    /\ (jobs # <<>>
          /\ Cardinality({i \in DOMAIN conn :
                             conn[i].pc \in {"frame", "resolve", "content", "write"}})
                < NumThreads)
         => ENABLED WorkerStart
    /\ \A i \in DOMAIN conn :
          /\ conn[i].pc = "queued" => \E k \in DOMAIN jobs : jobs[k] = i
          /\ conn[i].pc = "content" => ENABLED ReadContent(i)
          /\ conn[i].pc = "write" => ENABLED Write(i)
          /\ conn[i].pc = "done"
                => /\ Outcome(conn[i].input) = "Ok"
                   /\ conn[i].written = Response(conn[i].content)
          /\ conn[i].pc = "failed"
                => /\ conn[i].err.kind \in {"IO", Outcome(conn[i].input)}
                   /\ conn[i].err.kind # "Ok"
                   /\ Outcome(conn[i].input) = "Ok" => conn[i].err.stage \in {"frame", "write"}

\* a step touches at most one connection, and a failed accept touches none
IsolatedStep ==
    /\ \A i \in DOMAIN conn :
          conn'[i] # conn[i] => \A j \in DOMAIN conn \ {i} : conn'[j] = conn[j]
    /\ acceptErrs' # acceptErrs => UNCHANGED <<conn, jobs, nextConn>>

====
